---- MODULE Spec2Model ----
(***************************************************************************)
(* Variational solvers of prml/approximate_inference.py as a state machine.*)
(*                                                                         *)
(* A run constructs one solver (VariationalGauss1D,                        *)
(* VariationalGaussianMixture or VariationalLogisticRegression) and then   *)
(* calls its methods one after the other; the solvers share no state.      *)
(*                                                                         *)
(* Floats are decimal fixed-point numbers: an integer v stands for         *)
(* v / Scale, products and quotients are rounded to the nearest unit, and  *)
(* NaN, +inf and -inf are kept as in IEEE arithmetic.  Arrays are          *)
(* sequences.  The data dimension is 1 (X has shape (N,1)), so every       *)
(* D x D matrix is one number and np.linalg.inv is a reciprocal.           *)
(***************************************************************************)
EXTENDS Integers, Sequences, FiniteSets, TLC

MaxLen == 3
MaxIter == 3
MaxFits == 2

\* two decimal digits
Scale == 10 * 10

(***************************************************************************)
(* Float arithmetic                                                        *)
(***************************************************************************)
PInf == 1000000 * 1000
NInf == 0 - PInf
NaN == PInf + 1

F(n) == n * Scale

IsFinite(x) == x > NInf /\ x < PInf

Sgn(x) == IF x > 0 THEN 1 ELSE IF x < 0 THEN 0 - 1 ELSE 0

Abs(x) == IF x < 0 THEN 0 - x ELSE x

\* n / d rounded to the nearest integer, d > 0
RoundDiv(n, d) == (2 * n + d) \div (2 * d)

FNeg(x) ==
    IF x = NaN THEN NaN
    ELSE IF x = PInf THEN NInf
    ELSE IF x = NInf THEN PInf
    ELSE 0 - x

FAdd(x, y) ==
    IF x = NaN \/ y = NaN THEN NaN
    ELSE IF ~IsFinite(x) /\ ~IsFinite(y) THEN (IF x = y THEN x ELSE NaN)
    ELSE IF ~IsFinite(x) THEN x
    ELSE IF ~IsFinite(y) THEN y
    ELSE x + y

FSub(x, y) == FAdd(x, FNeg(y))

FMul(x, y) ==
    IF x = NaN \/ y = NaN THEN NaN
    ELSE IF ~IsFinite(x) \/ ~IsFinite(y)
         THEN (IF x = 0 \/ y = 0 THEN NaN
               ELSE IF Sgn(x) * Sgn(y) > 0 THEN PInf ELSE NInf)
    ELSE RoundDiv(x * y, Scale)

\* numpy division: x/0 is nan for x = 0 and +-inf otherwise, never an error
FDiv(x, y) ==
    IF x = NaN \/ y = NaN THEN NaN
    ELSE IF ~IsFinite(y) THEN (IF ~IsFinite(x) THEN NaN ELSE 0)
    ELSE IF ~IsFinite(x) THEN (IF Sgn(x) * Sgn(y) >= 0 /\ (Sgn(y) # 0 \/ x = PInf)
                               THEN (IF Sgn(y) = 0 THEN x ELSE PInf)
                               ELSE NInf)
    ELSE IF y = 0 THEN (IF x = 0 THEN NaN ELSE IF x > 0 THEN PInf ELSE NInf)
    ELSE IF y > 0 THEN RoundDiv(x * Scale, y)
    ELSE RoundDiv((0 - x) * Scale, 0 - y)

\* comparisons with nan are False
FLt(x, y) == x # NaN /\ y # NaN /\ x < y

FGe(x, y) == x # NaN /\ y # NaN /\ x >= y

RECURSIVE SqrtSearch(_, _, _)
SqrtSearch(n, lo, hi) ==
    IF lo >= hi THEN lo
    ELSE LET mid == (lo + hi + 1) \div 2
         IN  IF mid * mid <= n THEN SqrtSearch(n, mid, hi)
             ELSE SqrtSearch(n, lo, mid - 1)

\* x ** 0.5
FSqrt(x) ==
    IF x = NaN \/ x < 0 THEN NaN
    ELSE IF x = PInf THEN PInf
    ELSE SqrtSearch(x * Scale, 0, IF x * Scale < 40000 THEN x * Scale ELSE 40000)

RECURSIVE SumSeq(_)
SumSeq(s) == IF s = <<>> THEN 0 ELSE FAdd(Head(s), SumSeq(Tail(s)))

(***************************************************************************)
(* State                                                                   *)
(***************************************************************************)
VARIABLES
    solver,     \* the class of the object the run constructed
    gauss,      \* VariationalGauss1D: the instance's attributes
    gfit,       \* VariationalGauss1D.fit: the call's locals and position
    ghist,      \* VariationalGauss1D: the calls made so far
    gmm,        \* VariationalGaussianMixture: the instance's attributes
    mfit,       \* VariationalGaussianMixture.fit: the call's locals and position
    mhist,      \* VariationalGaussianMixture: the calls made so far
    pd,         \* VariationalGaussianMixture.prob_density: the last call
    lr,         \* VariationalLogisticRegression: the instance's attributes
    lfit,       \* VariationalLogisticRegression.fit: the call's locals and position
    lhist       \* VariationalLogisticRegression: the calls made so far

vars == <<solver, gauss, gfit, ghist, gmm, mfit, mhist, pd, lr, lfit, lhist>>

(***************************************************************************)
(* VariationalGauss1D                                                      *)
(***************************************************************************)
\* (a, b, mu, lamda) given to the constructor; (0,0,0,0) are the defaults
GaussPriors == {<<0, 0, 0, 0>>, <<1, 1, 1, 1>>}

\* threshold given to the constructor; 1e-2 is the default
GaussThresholds == {1, 50}

\* init_tau, an expected precision: positive
InitTaus == {F(1), F(2)}

\* data with positive sample variance: 1, 2, .., n and 0, 2, .., 2
GaussData ==
    {[i \in 1..n |-> i] : n \in 2..MaxLen}
    \cup {[i \in 1..n |-> IF i = 1 THEN 0 ELSE 2] : n \in 2..MaxLen}

RECURSIVE SumInts(_)
SumInts(X) == IF X = <<>> THEN 0 ELSE Head(X) + SumInts(Tail(X))

RECURSIVE SumSquares(_)
SumSquares(X) == IF X = <<>> THEN 0 ELSE Head(X) * Head(X) + SumSquares(Tail(X))

GaussIdle ==
    [pc |-> "idle", outcome |-> "none", N |-> 0, X_sum |-> 0, X2_sum |-> 0,
     E_tau |-> 0, mu_N |-> 0, lam_N |-> 0, a_N |-> 0, b_N |-> 0, bound |-> FALSE,
     iters |-> 0, tests |-> <<>>, mus |-> <<>>, mu_0 |-> 0,
     new |-> [mu_N |-> 0, lam_N |-> 0],
     pre |-> [a |-> 0, b |-> 0, mu |-> 0, lamda |-> 0]]

\* lines 58 and 68
GaussMuN(self, X_sum, N) ==
    FDiv(FAdd(FMul(self.lamda, self.mu), X_sum), FAdd(self.lamda, F(N)))

\* lines 59 and 69
GaussLamN(self, N, E_tau) == FMul(FAdd(self.lamda, F(N)), E_tau)

\* line 63
GaussEMu2(mu_N, lam_N, N, E_tau) ==
    FAdd(FMul(mu_N, mu_N), FDiv(F(1), FMul(FAdd(lam_N, F(N)), E_tau)))

GaussANHalfN(self, N) == FAdd(self.a, FDiv(F(N), F(2)))

\* line 64
GaussAN(self, N) == FAdd(self.a, FDiv(F(N + 1), F(2)))

\* line 65
GaussBN(self, f, E_mu, E_mu2) ==
    FAdd(self.b,
         FMul(F(1) \div 2,
              FAdd(FAdd(FSub(f.X2_sum, FMul(FMul(F(2), E_mu), f.X_sum)),
                        FMul(F(f.N), E_mu2)),
                   FMul(self.lamda,
                        FAdd(FSub(E_mu2, FMul(FMul(F(2), E_mu), self.mu)),
                             FMul(self.mu, self.mu))))))

\* line 71
GaussConverged(lam_N, mu_N, new_lam_N, new_mu_N, threshold) ==
    LET dl == FSub(new_lam_N, lam_N)
        dm == FSub(new_mu_N, mu_N)
    IN  FLt(FSqrt(FAdd(FMul(dl, dl), FMul(dm, dm))), threshold)

GaussRangeOffByOne(self, f) == f.iters + 1 >= self.max_iter

\* line 61: range(self.max_iter) is used up
GaussRangeDone(self, f) == f.iters >= self.max_iter

GaussBreakDiscards(f, new_lam_N, new_mu_N) == [f EXCEPT !.pc = "store"]

\* lines 72-74
GaussBreak(f, new_lam_N, new_mu_N) ==
    [f EXCEPT !.lam_N = new_lam_N, !.mu_N = new_mu_N, !.pc = "store"]

\* lines 76-77
GaussContinue(f, new_lam_N, new_mu_N) ==
    [f EXCEPT !.lam_N = new_lam_N, !.mu_N = new_mu_N]

\* lines 53-59
GaussFitBegin(X, init_tau) ==
    /\ solver = "gauss"
    /\ gfit.pc = "idle"
    /\ ghist.calls < MaxFits
    /\ LET N == Len(X)
           X_sum == F(SumInts(X))
       IN  gfit' = [GaussIdle EXCEPT
                      !.pc = "loop", !.outcome = "running",
                      !.N = N, !.X_sum = X_sum, !.X2_sum = F(SumSquares(X)),
                      !.E_tau = init_tau,
                      !.mu_N = GaussMuN(gauss, X_sum, N),
                      !.mu_0 = GaussMuN(gauss, X_sum, N),
                      !.lam_N = GaussLamN(gauss, N, init_tau),
                      !.pre = [a |-> gauss.a, b |-> gauss.b,
                               mu |-> gauss.mu, lamda |-> gauss.lamda]]
    /\ ghist' = [ghist EXCEPT !.calls = @ + 1]
    /\ UNCHANGED <<solver, gauss, gmm, mfit, mhist, pd, lr, lfit, lhist>>

\* lines 61-77, one pass of the loop body
GaussFitIter ==
    /\ solver = "gauss"
    /\ gfit.pc = "loop"
    /\ ~GaussRangeDone(gauss, gfit)
    /\ LET E_mu == gfit.mu_N
           E_mu2 == GaussEMu2(gfit.mu_N, gfit.lam_N, gfit.N, gfit.E_tau)
           a_N == GaussAN(gauss, gfit.N)
           b_N == GaussBN(gauss, gfit, E_mu, E_mu2)
           E_tau == FDiv(a_N, b_N)
           new_mu_N == GaussMuN(gauss, gfit.X_sum, gfit.N)
           new_lam_N == GaussLamN(gauss, gfit.N, E_tau)
           test == GaussConverged(gfit.lam_N, gfit.mu_N, new_lam_N, new_mu_N,
                                  gauss.threshold)
           f == [gfit EXCEPT !.a_N = a_N, !.b_N = b_N, !.bound = TRUE,
                             !.E_tau = E_tau, !.iters = @ + 1,
                             !.tests = Append(@, test),
                             !.mus = Append(@, new_mu_N),
                             !.new = [mu_N |-> new_mu_N, lam_N |-> new_lam_N]]
       IN  gfit' = IF test THEN GaussBreak(f, new_lam_N, new_mu_N)
                   ELSE GaussContinue(f, new_lam_N, new_mu_N)
    /\ UNCHANGED <<solver, gauss, ghist, gmm, mfit, mhist, pd, lr, lfit, lhist>>

\* lines 79-82; a_N and b_N are unbound when the loop body never ran, and
\* line 81 then raises UnboundLocalError after lines 79-80 took effect
GaussFitStore ==
    /\ solver = "gauss"
    /\ \/ gfit.pc = "store"
       \/ gfit.pc = "loop" /\ GaussRangeDone(gauss, gfit)
    /\ IF gfit.bound
       THEN /\ gauss' = [gauss EXCEPT !.mu = gfit.mu_N, !.lamda = gfit.lam_N,
                                      !.a = gfit.a_N, !.b = gfit.b_N]
            /\ gfit' = [gfit EXCEPT !.pc = "idle", !.outcome = "returned"]
            /\ ghist' = [ghist EXCEPT !.ns = Append(@, gfit.N),
                                      !.prev = ghist.left,
                                      !.left = [mu |-> gfit.mu_N, lamda |-> gfit.lam_N]]
       ELSE /\ gauss' = [gauss EXCEPT !.mu = gfit.mu_N, !.lamda = gfit.lam_N]
            /\ gfit' = [gfit EXCEPT !.pc = "idle", !.outcome = "raised"]
            /\ ghist' = [ghist EXCEPT !.prev = ghist.left,
                                      !.left = [mu |-> gfit.mu_N, lamda |-> gfit.lam_N]]
    /\ UNCHANGED <<solver, gmm, mfit, mhist, pd, lr, lfit, lhist>>

(***************************************************************************)
(* VariationalGaussianMixture                                              *)
(*                                                                         *)
(* The model follows the first fit of an instance and the prob_density     *)
(* call after it.  The new responsibilities of the E step (digamma, log   *)
(* and exp of the posterior, lines 191-198) are not computed: each row is  *)
(* one of the rows of GmmRows, or nan throughout when a posterior value    *)
(* is nan.                                                                 *)
(***************************************************************************)
MaxK == 3

MaxRounds == 2

\* an attribute that is None or was never assigned, and one holding array v
None == [none |-> TRUE, v |-> <<>>]

Arr(v) == [none |-> FALSE, v |-> v]

\* beta and nu are numbers before fit and arrays after it
Scalar(x) == [scalar |-> TRUE, v |-> <<x>>]

Array(v) == [scalar |-> FALSE, v |-> v]

\* m given to the constructor: None, shape (1,) or shape (2,)
GmmMs == {None, Arr(<<F(1)>>), Arr(<<0, 0>>)}

\* W given to the constructor: None, shape (1,1) or shape (2,2)
GmmWs == {None, Arr(<<<<F(2)>>>>), Arr(<<<<F(1), 0>>, <<0, F(1)>>>>)}

\* X of shape (N,1), as the column of its values
GmmData == {<<0, F(2)>>}

\* (reduce_components, threshold); the small threshold prunes nothing
GmmPruning == {<<FALSE, 1>>, <<TRUE, 1>>, <<TRUE, (3 * F(1)) \div 10>>}

OneHot(K, j) == [k \in 1..K |-> IF k = j THEN F(1) ELSE 0]

Uniform(K) == [k \in 1..K |-> FDiv(F(1), F(K))]

GmmRows(K) == IF K = 0 THEN {<<>>} ELSE {OneHot(K, j) : j \in 1..K} \cup {Uniform(K)}

NanRow(K) == [k \in 1..K |-> NaN]

\* line 132: None, an (N,K) matrix, or a matrix with a row too many or too few
GmmInitialResponsibilities(N, K) ==
    {None}
    \cup {Arr(E) : E \in [1..N -> GmmRows(K)]}
    \cup {Arr([n \in 1..(N + 1) |-> Uniform(K)]), Arr([n \in 1..(N - 1) |-> Uniform(K)])}

Column(E_z, k) == [n \in 1..Len(E_z) |-> E_z[n][k]]

RECURSIVE Dot(_, _)
Dot(u, v) ==
    IF u = <<>> THEN 0 ELSE FAdd(FMul(Head(u), Head(v)), Dot(Tail(u), Tail(v)))

\* x[reduce], boolean-mask indexing
RECURSIVE Pick(_, _)
Pick(x, reduce) ==
    IF x = <<>> THEN <<>>
    ELSE (IF Head(reduce) THEN <<Head(x)>> ELSE <<>>) \o Pick(Tail(x), Tail(reduce))

\* line 167
GmmNk(E_z, K) == [k \in 1..K |-> SumSeq(Column(E_z, k))]

\* line 168
GmmXkBar(E_z, X, N_k) ==
    [k \in 1..Len(N_k) |-> FDiv(Dot(Column(E_z, k), X), N_k[k])]

\* lines 169-170
GmmSk(E_z, X, N_k, x_k_bar) ==
    [k \in 1..Len(N_k) |->
        LET tmp == [n \in 1..Len(X) |-> FSub(X[n], x_k_bar[k])]
        IN  FDiv(Dot(Column(E_z, k), [n \in 1..Len(X) |-> FMul(tmp[n], tmp[n])]),
                 N_k[k])]

\* line 172
GmmAlpha(self, N_k) == [k \in 1..Len(N_k) |-> FAdd(self.alpha[k], N_k[k])]

\* line 173
GmmBeta(self, N_k) == [k \in 1..Len(N_k) |-> FAdd(self.beta.v[1], N_k[k])]

\* line 174
GmmMk(self, N_k, x_k_bar, beta) ==
    [k \in 1..Len(N_k) |->
        FDiv(FAdd(FMul(self.beta.v[1], self.m.v[1]), FMul(N_k[k], x_k_bar[k])),
             beta[k])]

\* lines 175-176; the matrix is 1 x 1 and at least W_inv, so it has an inverse
GmmWk(self, N_k, x_k_bar, S_k) ==
    [k \in 1..Len(N_k) |->
        LET tmp == FSub(x_k_bar[k], self.m.v[1])
            c == FDiv(FMul(self.beta.v[1], N_k[k]), FAdd(self.beta.v[1], N_k[k]))
        IN  FDiv(F(1),
                 FAdd(FAdd(self.W_inv.v[1][1], FMul(N_k[k], S_k[k])),
                      FMul(FMul(c, tmp), tmp)))]

\* line 177
GmmNu(self, N_k) == [k \in 1..Len(N_k) |-> FAdd(self.nu.v[1], N_k[k])]

\* line 180
GmmEPi(self, N_k, N) ==
    [k \in 1..Len(N_k) |->
        FDiv(FAdd(self.alpha[k], N_k[k]), FAdd(FMul(F(self.K), self.alpha[k]), F(N)))]

\* line 182
GmmReduce(E_pi, threshold) == [k \in 1..Len(E_pi) |-> FGe(E_pi[k], threshold)]

GmmPriorNotPruned(alpha, reduce) == alpha

\* line 183
GmmPrunePrior(alpha, reduce) == Pick(alpha, reduce)

\* line 189
GmmCount(reduce) == Cardinality({k \in DOMAIN reduce : reduce[k]})

\* lines 191-198: the shape is (N, self.K), from line 193
GmmEStep(N, K, m_k, W_k) ==
    IF \E k \in DOMAIN W_k : W_k[k] = NaN \/ m_k[k] = NaN
    THEN {[n \in 1..N |-> NanRow(K)]}
    ELSE [1..N -> GmmRows(K)]

GmmFields(self) ==
    [K |-> self.K, alpha |-> self.alpha, m |-> self.m, beta |-> self.beta,
     W |-> self.W, nu |-> self.nu, W_inv |-> self.W_inv]

GmmIdle ==
    [pc |-> "idle", outcome |-> "none", line |-> 0, N |-> 0, X |-> <<>>,
     E_z |-> <<>>, ir_rows |-> 0, reduce_components |-> FALSE, threshold |-> 0,
     rounds |-> 0, entered |-> 0, bound |-> FALSE, pruned |-> FALSE,
     alpha |-> <<>>, beta |-> <<>>, m_k |-> <<>>, W_k |-> <<>>, nu |-> <<>>,
     E_pi |-> <<>>, m_given |-> 0, W_given |-> 0]

GmmRaise(f, line) == [f EXCEPT !.pc = "idle", !.outcome = "raised", !.line = line]

\* lines 143-162
GmmFitBegin(X, initial_responsibility, reduce_components, threshold) ==
    /\ solver = "gmm"
    /\ mfit.pc = "idle"
    /\ mhist.calls = 0
    /\ LET N == Len(X)
           M == 1
           \* lines 147-148: rows of positive numbers that sum to 1
           E_z == IF initial_responsibility.none
                  THEN [n \in 1..N |-> Uniform(gmm.K)]
                  ELSE initial_responsibility.v
           f == [GmmIdle EXCEPT
                   !.pc = "loop", !.outcome = "running", !.N = N, !.X = X,
                   !.E_z = E_z, !.ir_rows = Len(E_z),
                   !.reduce_components = reduce_components,
                   !.threshold = threshold,
                   !.m_given = IF gmm.m.none THEN 0 ELSE Len(gmm.m.v),
                   !.W_given = IF gmm.W.none THEN 0 ELSE Len(gmm.W.v)]
           m_set == IF gmm.m.none THEN Arr([d \in 1..M |-> 0]) ELSE gmm.m
       IN  IF ~gmm.m.none /\ Len(gmm.m.v) # M
           THEN /\ mfit' = GmmRaise(f, 155)
                /\ UNCHANGED gmm
           ELSE IF ~gmm.W.none /\ Len(gmm.W.v) # M
           THEN /\ mfit' = GmmRaise(f, 161)
                /\ gmm' = [gmm EXCEPT !.m = m_set]
           ELSE /\ mfit' = f
                /\ gmm' = [gmm EXCEPT
                             !.m = m_set,
                             !.W_inv = IF gmm.W.none
                                       THEN Arr(<<<<F(1)>>>>)
                                       ELSE Arr(<<<<FDiv(F(1), gmm.W.v[1][1])>>>>)]
    /\ mhist' = [mhist EXCEPT !.calls = @ + 1, !.pre = GmmFields(gmm)]
    /\ UNCHANGED <<solver, pd, gauss, gfit, ghist, lr, lfit, lhist>>

\* lines 164-198, one round
GmmRound ==
    /\ solver = "gmm"
    /\ mfit.pc = "loop"
    /\ mfit.rounds < gmm.n_iter
    /\ IF Len(mfit.E_z) # mfit.N
       THEN \* line 168: E_z.T @ X raises ValueError
            /\ mfit' = [GmmRaise(mfit, 168) EXCEPT !.entered = @ + 1]
            /\ UNCHANGED gmm
       ELSE LET X == mfit.X
                N == mfit.N
                E_z == mfit.E_z
                N_k == GmmNk(E_z, gmm.K)
                x_k_bar == GmmXkBar(E_z, X, N_k)
                S_k == GmmSk(E_z, X, N_k, x_k_bar)
                alpha == GmmAlpha(gmm, N_k)
                beta == GmmBeta(gmm, N_k)
                m_k == GmmMk(gmm, N_k, x_k_bar, beta)
                W_k == GmmWk(gmm, N_k, x_k_bar, S_k)
                nu == GmmNu(gmm, N_k)
                E_pi == GmmEPi(gmm, N_k, N)
                rc == mfit.reduce_components
                reduce == GmmReduce(E_pi, mfit.threshold)
                K2 == IF rc THEN GmmCount(reduce) ELSE gmm.K
                alpha2 == IF rc THEN Pick(alpha, reduce) ELSE alpha
                beta2 == IF rc THEN Pick(beta, reduce) ELSE beta
                m_k2 == IF rc THEN Pick(m_k, reduce) ELSE m_k
                W_k2 == IF rc THEN Pick(W_k, reduce) ELSE W_k
                nu2 == IF rc THEN Pick(nu, reduce) ELSE nu
            IN  /\ gmm' = [gmm EXCEPT
                             !.alpha = IF rc THEN GmmPrunePrior(@, reduce) ELSE @,
                             !.K = K2]
                /\ \E new_E_z \in GmmEStep(N, K2, m_k2, W_k2) :
                      mfit' = [mfit EXCEPT
                                 !.rounds = @ + 1, !.entered = @ + 1, !.bound = TRUE,
                                 !.pruned = (K2 < gmm.K) \/ @,
                                 !.alpha = alpha2, !.beta = beta2, !.m_k = m_k2,
                                 !.W_k = W_k2, !.nu = nu2, !.E_pi = E_pi,
                                 !.E_z = new_E_z]
    /\ UNCHANGED <<solver, mhist, pd, gauss, gfit, ghist, lr, lfit, lhist>>

\* lines 200-205; alpha is unbound when no round ran, and line 201 then raises
\* UnboundLocalError after line 200 took effect
GmmFitStore ==
    /\ solver = "gmm"
    /\ mfit.pc = "loop"
    /\ mfit.rounds >= gmm.n_iter
    /\ IF mfit.bound
       THEN /\ gmm' = [gmm EXCEPT
                         !.r = Arr(mfit.E_z), !.alpha = mfit.alpha,
                         !.beta = Array(mfit.beta), !.m_k = Arr(mfit.m_k),
                         !.W_k = Arr(mfit.W_k), !.nu = Array(mfit.nu),
                         !.fitted = TRUE]
            /\ mfit' = [mfit EXCEPT !.pc = "idle", !.outcome = "returned"]
       ELSE /\ gmm' = [gmm EXCEPT !.r = Arr(mfit.E_z)]
            /\ mfit' = GmmRaise(mfit, 201)
    /\ UNCHANGED <<solver, mhist, pd, gauss, gfit, ghist, lr, lfit, lhist>>

\* points prob_density is asked about, shape (N,1)
DensityPoints == {<<0>>, <<F(1), F(3)>>}

\* line 211: the factor that multiplies norm_const
StudentSt(D, nu, mahalanobis_dist) ==
    FMul(FAdd(F(1), FDiv(mahalanobis_dist, nu)),
         FSub(FNeg(FDiv(F(D), F(2))), FDiv(nu, F(2))))

\* lines 207-212.  X -= mu writes into the caller's array; X is the array
\* after the call.  norm_const (gamma, det and pi, line 208) is a positive
\* number for nu > 0 and L > 0 and is not computed: st is what multiplies it.
Student(X, D, mu, L, nu) ==
    LET X1 == [n \in 1..Len(X) |-> FSub(X[n], mu)]
        mahalanobis_dist == [n \in 1..Len(X) |-> FMul(FMul(X1[n], L), X1[n])]
    IN  [X |-> X1, mahalanobis_dist |-> mahalanobis_dist,
         st |-> [n \in 1..Len(X) |-> StudentSt(D, nu, mahalanobis_dist[n])]]

\* line 229
DensityL(self, i, D) ==
    FMul(FDiv(FMul(FAdd(self.nu.v[i], F(1 - D)), self.beta.v[i]),
              FAdd(F(1), self.beta.v[i])),
         self.W_k.v[i])

\* lines 228-230: components i..K in turn, each on the array the last one left
RECURSIVE DensityLoop(_, _, _, _)
DensityLoop(self, X, D, i) ==
    IF i > self.K THEN [X |-> X, terms |-> <<>>]
    ELSE LET nu == FAdd(self.nu.v[i], F(1 - D))
             t == Student(X, D, self.m_k.v[i], DensityL(self, i, D), nu)
             rest == DensityLoop(self, t.X, D, i + 1)
         IN  [X |-> rest.X,
              terms |-> <<[mu |-> self.m_k.v[i], nu |-> nu, points |-> t.X,
                           mahalanobis_dist |-> t.mahalanobis_dist,
                           st |-> t.st]>> \o rest.terms]

\* lines 226-232
ProbDensity(X) ==
    /\ solver = "gmm"
    /\ mfit.pc = "idle"
    /\ gmm.fitted
    /\ ~pd.called
    /\ LET D == 1
           res == DensityLoop(gmm, X, D, 1)
       IN  pd' = [called |-> TRUE, D |-> D, X_in |-> X, X_out |-> res.X,
                  terms |-> res.terms]
    /\ UNCHANGED <<solver, gmm, mfit, mhist, gauss, gfit, ghist, lr, lfit, lhist>>

(***************************************************************************)
(* VariationalLogisticRegression                                           *)
(*                                                                         *)
(* The design matrix has one column (M = 1): make_design_mat, of the base  *)
(* class, is taken with the identity basis, and _onehot_to_label with      *)
(* label-encoded y.  S and weight are then 1 x 1.                          *)
(***************************************************************************)
\* alpha given to the constructor; 1e-1 is the default
LrAlphas == {F(1) \div 10, F(1)}

\* threshold given to the constructor; 1e-2 is the default
LrThresholds == {1, F(1)}

\* X of shape (N,1), as the column of its values
LrData == {<<0 - F(1), F(2)>>}

\* y, label-encoded
LrLabels == {<<0, 1>>, <<1, 1>>}

\* np.random.randn(N), line 285: any reals; zero has probability 0
LrRandomXi(N) == {[n \in 1..N |-> F(1)], [n \in 1..N |-> IF n = 1 THEN 0 - F(1) ELSE F(2)]}

\* init_xi: None, shape (N,), or a row too many or too few
LrInitXi(N) ==
    {None, Arr([n \in 1..N |-> 0]), Arr([n \in 1..N |-> F(n)]),
     Arr([n \in 1..(N + 1) |-> F(1)]), Arr([n \in 1..(N - 1) |-> F(1)])}

\* 100 * sigmoid(k) for k = 0..6, to the nearest integer
SigmoidTable == <<50, 73, 88, 95, 98, 99, 100>>

\* prml.utils.util.sigmoid, 1/(1 + exp(-x)): tabulated at the integers and
\* interpolated in between; sigmoid(-x) = 1 - sigmoid(x)
Sigmoid(x) ==
    IF x = NaN THEN NaN
    ELSE LET ax == Abs(x)
             k == ax \div Scale
             pos == IF k >= Len(SigmoidTable) - 1 THEN F(1)
                    ELSE LET lo == SigmoidTable[k + 1]
                             hi == SigmoidTable[k + 2]
                         IN  RoundDiv((lo * Scale + (hi - lo) * (ax % Scale)) * Scale,
                                      100 * Scale)
         IN  IF x >= 0 THEN pos ELSE F(1) - pos

\* the base class's make_design_mat with the identity basis
MakeDesignMat(X) == X

LrLamdaElement(xi_n) == FDiv(FSub(Sigmoid(xi_n), F(1) \div 2), FMul(F(2), xi_n))

\* lines 318-319
Lamda(xi) == [n \in 1..Len(xi) |-> LrLamdaElement(xi[n])]

\* line 301; the 1 x 1 matrix is at least alpha > 0, or nan
LrS(alpha, lamda, design_mat) ==
    FDiv(F(1),
         FAdd(alpha,
              FMul(F(2), Dot([n \in 1..Len(lamda) |-> FMul(lamda[n], design_mat[n])],
                             design_mat))))

\* line 302
LrWeight(S, y, design_mat) ==
    FMul(S, SumSeq([n \in 1..Len(y) |-> FMul(F(y[n]) - F(1) \div 2, design_mat[n])]))

\* lines 308 and 340
LrNewXi(design_mat, S, weight) ==
    LET E_wwT == FAdd(S, FMul(weight, weight))
    IN  [n \in 1..Len(design_mat) |->
            FSqrt(FMul(FMul(design_mat[n], E_wwT), design_mat[n]))]

\* line 310
LrConverged(xi, new_xi, threshold) ==
    LET sq == [n \in 1..Len(xi) |->
                  LET d == FSub(xi[n], new_xi[n]) IN FMul(d, d)]
    IN  FLt(FSqrt(FDiv(SumSeq(sq), F(Len(xi)))), threshold)

\* line 297: range(self.max_iter) is used up
LrRangeDone(self, f) == f.iters >= self.max_iter

\* lines 311-312
LrBreak(f, new_xi) == [f EXCEPT !.xi = new_xi, !.pc = "store"]

\* line 314
LrContinue(f, new_xi) == [f EXCEPT !.xi = new_xi]

LrIdle ==
    [pc |-> "idle", outcome |-> "none", line |-> 0, N |-> 0, design_mat |-> <<>>,
     y |-> <<>>, xi |-> <<>>, xi_rows |-> 0, optimize_param |-> FALSE,
     init_a |-> 0, init_b |-> 0, iters |-> 0, tests |-> <<>>,
     xi_in |-> <<>>, lamda |-> <<>>, new_xi |-> <<>>]

\* lines 282-295
LrFitBegin(X, y, init_xi, optimize_param, init_a, init_b) ==
    /\ solver = "lr"
    /\ lfit.pc = "idle"
    /\ lhist.calls < MaxFits
    /\ LET N == Len(X)
           f == [LrIdle EXCEPT
                   !.pc = "loop", !.outcome = "running", !.N = N, !.y = y,
                   !.design_mat = MakeDesignMat(X),
                   !.xi_rows = IF init_xi.none THEN N ELSE Len(init_xi.v),
                   !.optimize_param = optimize_param,
                   !.init_a = init_a, !.init_b = init_b]
       IN  IF init_xi.none
           THEN /\ \E xi \in LrRandomXi(N) : lfit' = [f EXCEPT !.xi = xi]
                /\ lr' = [lr EXCEPT !.a = Arr(<<init_a>>), !.b = Arr(<<init_b>>)]
           ELSE IF Len(init_xi.v) # N
           THEN /\ lfit' = [f EXCEPT !.pc = "idle", !.outcome = "raised", !.line = 287]
                /\ UNCHANGED lr
           ELSE /\ lfit' = [f EXCEPT !.xi = init_xi.v]
                /\ lr' = [lr EXCEPT !.a = Arr(<<init_a>>), !.b = Arr(<<init_b>>)]
    /\ lhist' = [calls |-> lhist.calls + 1, pre |-> lr]
    /\ UNCHANGED <<solver, gauss, gfit, ghist, gmm, mfit, mhist, pd>>

\* lines 297-314, one pass of the loop body (with _opt_param, lines 333-340)
LrFitIter ==
    /\ solver = "lr"
    /\ lfit.pc = "loop"
    /\ ~LrRangeDone(lr, lfit)
    /\ LET design_mat == lfit.design_mat
           M == 1
           lamda == Lamda(lfit.xi)
           S == LrS(lr.alpha, lamda, design_mat)
           weight == LrWeight(S, lfit.y, design_mat)
           E_wTw == FAdd(S, FMul(weight, weight))
           a == FAdd(lfit.init_a, FDiv(F(M), F(2)))
           b == FAdd(lfit.init_b, FDiv(E_wTw, F(2)))
           new_xi == LrNewXi(design_mat, S, weight)
           test == LrConverged(lfit.xi, new_xi, lr.threshold)
           f == [lfit EXCEPT !.iters = @ + 1, !.tests = Append(@, test),
                             !.xi_in = lfit.xi, !.lamda = lamda, !.new_xi = new_xi]
       IN  /\ lr' = IF lfit.optimize_param
                    THEN [lr EXCEPT !.S = Arr(<<<<S>>>>), !.weight = Arr(<<weight>>),
                                    !.a = Arr(<<a>>), !.b = Arr(<<b>>),
                                    !.alpha = FDiv(a, b)]
                    ELSE [lr EXCEPT !.S = Arr(<<<<S>>>>), !.weight = Arr(<<weight>>)]
           /\ lfit' = IF test THEN LrBreak(f, new_xi) ELSE LrContinue(f, new_xi)
    /\ UNCHANGED <<solver, lhist, gauss, gfit, ghist, gmm, mfit, mhist, pd>>

\* line 316
LrFitStore ==
    /\ solver = "lr"
    /\ \/ lfit.pc = "store"
       \/ lfit.pc = "loop" /\ LrRangeDone(lr, lfit)
    /\ lr' = [lr EXCEPT !.xi = Arr(lfit.xi)]
    /\ lfit' = [lfit EXCEPT !.pc = "idle", !.outcome = "returned"]
    /\ UNCHANGED <<solver, lhist, gauss, gfit, ghist, gmm, mfit, mhist, pd>>

(***************************************************************************)
(* The run                                                                 *)
(***************************************************************************)
\* __init__, lines 38-43
GaussInit(p, threshold, max_iter) ==
    [a |-> F(p[1]), b |-> F(p[2]), mu |-> F(p[3]), lamda |-> F(p[4]),
     max_iter |-> max_iter, threshold |-> threshold]

\* __init__, lines 118-130, with alpha, nu left None and beta = 1
GmmInit(K, m, W, n_iter) ==
    [K |-> K, alpha |-> [k \in 1..K |-> F(1)], m |-> m, beta |-> Scalar(F(1)),
     W |-> W, nu |-> Scalar(F(1)), n_iter |-> n_iter,
     W_inv |-> None, r |-> None, m_k |-> None, W_k |-> None, fitted |-> FALSE]

\* __init__, lines 264-268
LrInit(alpha, max_iter, threshold) ==
    [alpha |-> alpha, xi |-> None, a |-> None, b |-> None, S |-> None,
     weight |-> None, max_iter |-> max_iter, threshold |-> threshold]

Init ==
    /\ solver \in {"gauss", "gmm", "lr"}
    /\ IF solver = "gauss"
       THEN \E p \in GaussPriors, t \in GaussThresholds, mi \in 0..MaxIter :
               gauss = GaussInit(p, t, mi)
       ELSE gauss = GaussInit(<<0, 0, 0, 0>>, 1, 0)
    /\ gfit = GaussIdle
    /\ ghist = [calls |-> 0, ns |-> <<>>, a_0 |-> gauss.a,
                left |-> [mu |-> gauss.mu, lamda |-> gauss.lamda],
                prev |-> [mu |-> gauss.mu, lamda |-> gauss.lamda]]
    /\ IF solver = "gmm"
       THEN \E K \in 1..MaxK, m \in GmmMs, W \in GmmWs, n_iter \in 0..MaxRounds :
               gmm = GmmInit(K, m, W, n_iter)
       ELSE gmm = GmmInit(1, None, None, 0)
    /\ mfit = GmmIdle
    /\ mhist = [calls |-> 0, pre |-> GmmFields(gmm)]
    /\ pd = [called |-> FALSE, D |-> 1, X_in |-> <<>>, X_out |-> <<>>, terms |-> <<>>]
    /\ IF solver = "lr"
       THEN \E alpha \in LrAlphas, mi \in 0..MaxIter, t \in LrThresholds :
               lr = LrInit(alpha, mi, t)
       ELSE lr = LrInit(F(1) \div 10, 0, 1)
    /\ lfit = LrIdle
    /\ lhist = [calls |-> 0, pre |-> lr]

Next ==
    \/ \E X \in GaussData, init_tau \in InitTaus : GaussFitBegin(X, init_tau)
    \/ GaussFitIter
    \/ GaussFitStore
    \/ \E X \in GmmData, p \in GmmPruning :
          \E ir \in GmmInitialResponsibilities(Len(X), gmm.K) :
             GmmFitBegin(X, ir, p[1], p[2])
    \/ GmmRound
    \/ GmmFitStore
    \/ \E X \in DensityPoints : ProbDensity(X)
    \/ \E X \in LrData, y \in LrLabels, optimize_param \in BOOLEAN :
          \E init_xi \in LrInitXi(Len(X)) : LrFitBegin(X, y, init_xi, optimize_param, 0, 0)
    \/ LrFitIter
    \/ LrFitStore

Spec == Init /\ [][Next]_vars

(***************************************************************************)
(* Properties                                                              *)
(***************************************************************************)
GaussPosterior == [a |-> gauss.a, b |-> gauss.b, mu |-> gauss.mu, lamda |-> gauss.lamda]

\* what the last pass of the loop body computed
GaussComputed ==
    [a |-> gfit.a_N, b |-> gfit.b_N, mu |-> gfit.new.mu_N, lamda |-> gfit.new.lam_N]

GaussCallEnded == solver = "gauss" /\ gfit.pc = "idle" /\ gfit.outcome \in {"returned", "raised"}

GmmCallEnded == solver = "gmm" /\ mfit.pc = "idle" /\ mfit.outcome \in {"returned", "raised"}

LrCallEnded == solver = "lr" /\ lfit.pc = "idle" /\ lfit.outcome \in {"returned", "raised"}

NoTestPassed(tests) == \A k \in DOMAIN tests : ~tests[k]

\* C1: after every call of VariationalGauss1D.fit, returned or raised, the
\* four fields a, b, mu, lamda either all hold what the last executed
\* iteration computed or all hold their values from before the call.
C1_FitIsAtomic ==
    GaussCallEnded =>
        \/ gfit.bound /\ GaussPosterior = GaussComputed
        \/ GaussPosterior = gfit.pre

\* C2: a call of VariationalGaussianMixture.fit on an instance whose prior
\* m or W has a first dimension other than the data's fails with the
\* mismatch error before any round of the loop, and leaves m, W, W_inv, K,
\* alpha, beta and nu as they were before the call.
C2_PriorMismatchLeavesStateAlone ==
    (GmmCallEnded /\ (mfit.m_given > 1 \/ mfit.W_given > 1)) =>
        /\ mfit.outcome = "raised"
        /\ mfit.line \in {155, 161}
        /\ mfit.entered = 0
        /\ GmmFields(gmm) = mhist.pre

\* C3: a call of fit with an initial responsibility matrix (mixture) or an
\* init_xi (logistic regression) whose row count is not N fails before the
\* first iteration of the loop is entered and leaves the instance as it was.
C3_RowMismatchRaisesBeforeLoop ==
    /\ (GmmCallEnded /\ mfit.ir_rows # mfit.N) =>
          /\ mfit.outcome = "raised"
          /\ mfit.entered = 0
          /\ GmmFields(gmm) = mhist.pre
    /\ (LrCallEnded /\ lfit.xi_rows # lfit.N) =>
          /\ lfit.outcome = "raised"
          /\ lfit.iters = 0
          /\ lr = lhist.pre

\* C4: when no convergence test passes (the mixture has none) and the cap
\* max_iter / n_iter >= 1 is used up, fit returns without raising after
\* exactly that many iterations, and the stored posterior is the one the
\* last iteration computed.
C4_NonConvergenceReturns ==
    /\ (GaussCallEnded /\ gauss.max_iter >= 1 /\ NoTestPassed(gfit.tests)) =>
          /\ gfit.outcome = "returned"
          /\ gfit.iters = gauss.max_iter
          /\ GaussPosterior = GaussComputed
    /\ (LrCallEnded /\ lr.max_iter >= 1 /\ lfit.xi_rows = lfit.N
          /\ NoTestPassed(lfit.tests)) =>
          /\ lfit.outcome = "returned"
          /\ lfit.iters = lr.max_iter
          /\ lr.xi = Arr(lfit.new_xi)
    /\ (GmmCallEnded /\ gmm.n_iter >= 1 /\ mfit.ir_rows = mfit.N
          /\ mfit.m_given <= 1 /\ mfit.W_given <= 1) =>
          /\ mfit.outcome = "returned"
          /\ mfit.rounds = gmm.n_iter
          /\ gmm.alpha = mfit.alpha /\ gmm.beta = Array(mfit.beta)
          /\ gmm.m_k = Arr(mfit.m_k) /\ gmm.W_k = Arr(mfit.W_k)
          /\ gmm.nu = Array(mfit.nu) /\ gmm.r = Arr(mfit.E_z)

C4_CapReachedWithoutConvergence ==
    /\ GaussCallEnded
    /\ gauss.max_iter >= 2
    /\ gfit.iters = gauss.max_iter
    /\ NoTestPassed(gfit.tests)

\* C5: with reduce_components, at the end of every round K is the number
\* of components whose E[pi_k] of that round is >= threshold, and the
\* prior alpha, the posterior alpha, beta, m_k, W_k, nu and every row of
\* the new responsibility matrix have length K.
C5_PruningInvariant ==
    (solver = "gmm" /\ mfit.reduce_components /\ mfit.bound) =>
        /\ gmm.K = Cardinality({k \in DOMAIN mfit.E_pi :
                                   FGe(mfit.E_pi[k], mfit.threshold)})
        /\ Len(gmm.alpha) = gmm.K
        /\ Len(mfit.alpha) = gmm.K
        /\ Len(mfit.beta) = gmm.K
        /\ Len(mfit.m_k) = gmm.K
        /\ Len(mfit.W_k) = gmm.K
        /\ Len(mfit.nu) = gmm.K
        /\ \A n \in DOMAIN mfit.E_z : Len(mfit.E_z[n]) = gmm.K

\* a round that follows an earlier pruning has ended, and pruned again
C5_RoundAfterPruning ==
    /\ solver = "gmm"
    /\ mfit.reduce_components
    /\ mfit.pruned
    /\ mfit.rounds >= 2
    /\ mfit.pc = "loop"
    /\ Len(mfit.E_pi) < Len(mhist.pre.alpha)
    /\ 0 < gmm.K /\ gmm.K < Len(mfit.E_pi)

\* C6: for an element xi_n = 0 the E step's Lambda(xi) is 1/8, and no nan
\* enters S and weight.
C6_LamdaAtZeroIsOneEighth ==
    (solver = "lr" /\ lfit.iters >= 1) =>
        \A n \in DOMAIN lfit.xi_in :
            lfit.xi_in[n] = 0 =>
                /\ lfit.lamda[n] = FDiv(F(1), F(8))
                /\ lr.S.v[1][1] # NaN
                /\ lr.weight.v[1] # NaN

\* C7: prob_density leaves the caller's X unchanged, and the Student-t term
\* of every component is evaluated at X - m_k.
C7_ProbDensityLeavesX ==
    pd.called =>
        /\ pd.X_out = pd.X_in
        /\ \A i \in DOMAIN pd.terms :
              pd.terms[i].points =
                  [n \in DOMAIN pd.X_in |-> FSub(pd.X_in[n], pd.terms[i].mu)]

\* C8: the loops of VariationalGauss1D.fit and
\* VariationalLogisticRegression.fit stop at the first iteration whose
\* convergence test passes: no iteration follows it, and what fit stores
\* are the new values of that iteration.
C8_EarlyStop ==
    /\ solver = "gauss" =>
          /\ gfit.iters = Len(gfit.tests)
          /\ \A k \in DOMAIN gfit.tests : gfit.tests[k] => k = Len(gfit.tests)
          /\ (gfit.tests # <<>> /\ gfit.tests[Len(gfit.tests)]) =>
                /\ gfit.pc # "loop"
                /\ gfit.mu_N = gfit.new.mu_N /\ gfit.lam_N = gfit.new.lam_N
                /\ GaussCallEnded =>
                      gfit.outcome = "returned" /\ GaussPosterior = GaussComputed
    /\ solver = "lr" =>
          /\ lfit.iters = Len(lfit.tests)
          /\ \A k \in DOMAIN lfit.tests : lfit.tests[k] => k = Len(lfit.tests)
          /\ (lfit.tests # <<>> /\ lfit.tests[Len(lfit.tests)]) =>
                /\ lfit.pc # "loop"
                /\ lfit.xi = lfit.new_xi
                /\ LrCallEnded =>
                      lfit.outcome = "returned" /\ lr.xi = Arr(lfit.new_xi)

\* a call stopped early, at its second iteration, with a change that is not 0
C8_StoppedAtSecondIteration ==
    /\ GaussCallEnded
    /\ gauss.max_iter > 2
    /\ Len(gfit.tests) = 2
    /\ gfit.tests[2]
    /\ gauss.lamda # gfit.pre.lamda

RECURSIVE FPow(_, _)
FPow(x, n) == IF n = 0 THEN F(1) ELSE FMul(x, FPow(x, n - 1))

\* C9: _student returns norm_const times (1 + mahalanobis/nu) to the power
\* -(D + nu)/2; the density is not negative.  (The power is computed where
\* (D + nu)/2 is a whole number.)
C9_StudentKernelPower ==
    pd.called =>
        \A i \in DOMAIN pd.terms :
            \A n \in DOMAIN pd.terms[i].st :
                LET t == pd.terms[i]
                    kernel == FAdd(F(1), FDiv(t.mahalanobis_dist[n], t.nu))
                    twice == F(pd.D) + t.nu
                IN  (t.st[n] # NaN) =>
                        /\ t.st[n] >= 0
                        /\ (twice % (2 * Scale) = 0) =>
                              t.st[n] = FDiv(F(1), FPow(kernel, twice \div (2 * Scale)))

RECURSIVE SumOfHalves(_)
SumOfHalves(ns) ==
    IF ns = <<>> THEN 0 ELSE FAdd(FDiv(F(Head(ns) + 1), F(2)), SumOfHalves(Tail(ns)))

\* C10: fit reads its priors from the fields it overwrites: after k calls
\* (max_iter >= 1) on data of sizes N_1..N_k, a is the constructor's a plus
\* the sum of (N_i + 1)/2; the mu a call stores is
\* (lamda*mu + sum(X))/(lamda + N) with the mu and lamda the call before it
\* left; and mu_N is the same in every iteration of a call.
C10_FitAccumulates ==
    (solver = "gauss" /\ gauss.max_iter >= 1) =>
        /\ \A i \in DOMAIN gfit.mus : gfit.mus[i] = gfit.mu_0
        /\ gfit.pc = "idle" =>
              /\ Len(ghist.ns) = ghist.calls
              /\ gauss.a = FAdd(ghist.a_0, SumOfHalves(ghist.ns))
              /\ ghist.calls >= 1 =>
                    gauss.mu = GaussMuN(ghist.prev, gfit.X_sum, gfit.N)

\* a second call has returned, and moved mu
C10_SecondFitReturned ==
    /\ GaussCallEnded
    /\ gauss.max_iter >= 1
    /\ ghist.calls = 2
    /\ Len(gfit.mus) >= 2
    /\ gauss.mu # ghist.prev.mu

====
